---------------------------- MODULE Spec2Model ----------------------------
(***************************************************************************)
(* Model of reconstruction::ReconstructionBase::build3D and readPoses      *)
(* (src/src/reconstruction/base.cpp): the incremental stitching of         *)
(* pose-tagged point clouds into one accumulated cloud.                     *)
(*                                                                         *)
(* Geometry is on an integer grid.  One grid unit is half the voxel size,  *)
(* so voxel_size^2 = 4, max_dist^2 = voxel_size^2/2 = 2 and the radius of  *)
(* the neighbour query (2*max_dist) has square 8.  Planar distances are    *)
(* kept squared, as the kd-tree returns them; where the code takes a       *)
(* square root the model compares the real numbers exactly through their   *)
(* squares.  z is a dyadic rational m/2^e, so the pairwise averaging is    *)
(* exact.  Poses are translations along x.                                 *)
(***************************************************************************)
EXTENDS Integers, Sequences, FiniteSets

\* ------------------------------------------------------------------ bounds
NClouds == 3        \* most rows the pose list holds
MaxPts == 2         \* most points a preprocessed cloud holds
MaxX == 2           \* incoming points have x in 0..MaxX
MaxY == 0           \* incoming points have y in 0..MaxY
MaxShift == 1       \* pose translations are 0..MaxShift
MaxContour == 1     \* most points the extracted contour holds
MaxAcc == 3         \* clouds are drawn so that acc never holds more points

\* --------------------------------------------------------------- constants
VoxelSq == 4                    \* voxel_size^2 in grid units (voxel_size = 2)
MaxDistSq == VoxelSq \div 2     \* max_dist = sqrt(voxel_size^2 / 2)
CoverageSq == 4 * MaxDistSq     \* (2*max_dist)^2, the radius of the query
K == 10                         \* most neighbours asked of the radius query
DefaultW == 0                   \* w of a default-constructed PointXYZRGBW

VARIABLES
  build,             \* what the build makes of an undefined float conversion
  graph_file,        \* what the pose file on disk is: "missing", "malformed", "ok"
  pc,                \* position in build3D
  poses_ret,         \* value readPoses returned ("unset" before it returns)
  cloud_poses,       \* the pose list: sequence of [tx]
  i,                 \* loop index over cloud_poses (1-based)
  acc,               \* the accumulator: sequence of [x, y, z, rgb, w]
  cloud,             \* the preprocessed cloud of the iteration: [x, y, z, rgb]
  n,                 \* index of the incoming point in the merge loop
  acc_xy,            \* planar copy of acc the neighbour kd-tree is built on
  contour,           \* acc_contour_xy: set of planar points
  max_contour_dist,  \* square of max_contour_dist
  cleanup_ran,       \* the final filtering of the accumulator ran
  saved,             \* savePCDFile was called for reconstruction.pcd
  \* history of the run, read by the properties only
  seeds,             \* cloud indices that took the seed step
  merged,            \* cloud indices that went through a merge pass
  acc_frame,         \* translation of the frame acc is expressed in
  pre,               \* acc as it was before the current/last merge pass
  matched,           \* acc indices some radius query of the pass returned
  written,           \* acc indices overwritten as primary or border-appended
  rewritten,         \* acc indices overwritten as primary while already flagged
  fresh,             \* acc indices appended by the no-neighbour branch
  branches,          \* branches taken in the current/last merge pass
  branch,            \* branch the last processed point took
  matches,           \* indices the last radius query returned
  primary,           \* index of the closest match of the last point (0: none)
  unflagged,         \* matches of the last point with w = 0 when its fix-up began
  fixed              \* acc indices the last collateral fix-up wrote

vars == <<build, graph_file, pc, poses_ret, cloud_poses, i, acc, cloud, n, acc_xy,
          contour, max_contour_dist, cleanup_ran, saved, seeds, merged,
          acc_frame, pre, matched, written, rewritten, fresh, branches, branch, matches, primary,
          unflagged, fixed>>

\* ------------------------------------------------------------ arithmetic
\* the integer part of the square root of q >= 0
RECURSIVE ISqrt(_)
ISqrt(q) ==
  IF q < 2 THEN q
  ELSE LET s == 2 * ISqrt(q \div 4)
       IN IF (s + 1) * (s + 1) <= q THEN s + 1 ELSE s

RECURSIVE Pow2(_)
Pow2(e) == IF e = 0 THEN 1 ELSE 2 * Pow2(e - 1)

\* a dyadic rational [m, e] is m / 2^e, with m odd or e = 0
RECURSIVE Norm(_, _)
Norm(m, e) == IF e > 0 /\ m % 2 = 0 THEN Norm(m \div 2, e - 1) ELSE [m |-> m, e |-> e]

\* (a + b) / 2 of two dyadic rationals: the z filter "p.z = (p.z + p_acc.z) / 2"
ZAvg(a, b) ==
  LET E == IF a.e > b.e THEN a.e ELSE b.e
  IN Norm(a.m * Pow2(E - a.e) + b.m * Pow2(E - b.e), E + 1)

\* ------------------------------------------------------------ packed color
Pack(r, g, b) == r * 65536 + g * 256 + b
RedOf(rgb) == (rgb \div 65536) % 256
GreenOf(rgb) == (rgb \div 256) % 256
BlueOf(rgb) == rgb % 256

\* The real number (1-alpha)*a + alpha*c with
\* alpha = (sqrt(Msq) - sqrt(dsq)) / sqrt(Msq), Msq > 0, truncated toward zero
\* as the conversion of a float to an integer truncates.  The number is
\* c + (d/M)*(a - c), that is c +/- sqrt((a - c)^2 * dsq / Msq).
BlendValue(a, c, dsq, Msq) ==
  LET num == (a - c) * (a - c) * dsq
      lo == ISqrt(num \div Msq)
      hi == IF lo * lo * Msq = num THEN lo ELSE lo + 1
  IN IF a >= c THEN c + lo
     ELSE IF hi <= c THEN c - hi
     ELSE c - lo

\* Storing the float t into a uint8_t.  In range the value is kept; out of
\* range the conversion is undefined, and the build decides: it keeps the low
\* byte of the integer ("wrap") or clamps to 0..255 ("saturate").
ToUint8(t) ==
  IF t \in 0..255 THEN t
  ELSE IF build = "wrap" THEN t % 256
  ELSE IF t < 0 THEN 0 ELSE 255

\* Storing a NaN into a uint8_t, undefined as well
NaNToUint8 == IF build = "wrap" THEN 0 ELSE 255

\* One channel of "Apply the blending".  With max_contour_dist = 0 alpha is
\* NaN or infinite, and the sum is NaN.
BlendChannel(a, c, dsq, Msq) ==
  IF Msq = 0 THEN NaNToUint8 ELSE ToUint8(BlendValue(a, c, dsq, Msq))

\* The packed color the blend of acc_rgb and cloud_rgb gives
Blend(acc_rgb, cloud_rgb, dsq, Msq) ==
  Pack(BlendChannel(RedOf(acc_rgb), RedOf(cloud_rgb), dsq, Msq),
       BlendChannel(GreenOf(acc_rgb), GreenOf(cloud_rgb), dsq, Msq),
       BlendChannel(BlueOf(acc_rgb), BlueOf(cloud_rgb), dsq, Msq))

\* ---------------------------------------------------------- planar indices
XY(p) == [x |-> p.x, y |-> p.y]

\* pcl::copyPointCloud to PointXY
ToXY(c) == [k \in 1..Len(c) |-> XY(c[k])]

DistSq(a, b) == (a.x - b.x) * (a.x - b.x) + (a.y - b.y) * (a.y - b.y)

\* the entries of S ordered by ascending squared distance, then index
RECURSIVE SortByDist(_)
SortByDist(S) ==
  IF S = {} THEN <<>>
  ELSE LET m == CHOOSE a \in S : \A b \in S :
                  a.sqd < b.sqd \/ (a.sqd = b.sqd /\ a.idx <= b.idx)
       IN <<m>> \o SortByDist(S \ {m})

\* KdTreeFLANN::radiusSearch(sp, radius, idx, sqr_dists, max_nn): the points
\* of the indexed cloud strictly inside the radius, nearest first, at most
\* max_nn of them (all of them when max_nn is 0 or exceeds the cloud size)
RadiusSearch(index, sp, radius_sq, max_nn) ==
  LET hits == { [idx |-> k, sqd |-> DistSq(sp, index[k])] :
                  k \in { j \in 1..Len(index) : DistSq(sp, index[j]) < radius_sq } }
      cap == IF max_nn = 0 \/ max_nn > Len(index) THEN Len(index) ELSE max_nn
      sorted == SortByDist(hits)
  IN SubSeq(sorted, 1, IF Len(sorted) < cap THEN Len(sorted) ELSE cap)

\* KdTreeFLANN::nearestKSearch(sp, 1, idx, sqr_dists) on a set of planar
\* points: the squared distances found (none when the set is empty)
NearestKSearch(points, sp) ==
  IF points = {} THEN <<>>
  ELSE <<CHOOSE d \in { DistSq(sp, q) : q \in points } :
           \A q \in points : d <= DistSq(sp, q)>>

\* nearestKSearch on kdtree_cloud: index of the incoming point nearest to sp
NearestCloudIdx(c, sp) ==
  CHOOSE k \in 1..Len(c) :
    \A j \in 1..Len(c) :
      DistSq(sp, c[k]) < DistSq(sp, c[j])
      \/ (DistSq(sp, c[k]) = DistSq(sp, c[j]) /\ k <= j)

\* min_element(neighbor_squared_dist): position of the first minimum
MinElement(res) ==
  CHOOSE h \in 1..Len(res) :
    /\ \A j \in 1..Len(res) : res[h].sqd <= res[j].sqd
    /\ \A j \in 1..(h - 1) : res[j].sqd > res[h].sqd


\* ------------------------------------------------------------------ inputs
\* What preprocessing can leave of the cloud file of row k: at most MaxPts
\* points on the grid.  The clouds are flat: depth and color go with the row.
CloudZ(k) == [m |-> k, e |-> 0]
CloudRGB(k) == Pack((k * 80) % 256, (250 - k * 60) % 256, (k * 37) % 256)
GridPoints(k) ==
  { [x |-> px, y |-> py, z |-> CloudZ(k), rgb |-> CloudRGB(k)] :
      px \in 0..MaxX, py \in 0..MaxY }
Clouds(k, room) ==
  UNION { [1..len -> GridPoints(k)] :
            len \in 0..(IF room < MaxPts THEN room ELSE MaxPts) }

\* The pose lists a file can give: between minlen and maxlen rows
PoseLists(minlen, maxlen) ==
  UNION { [1..len -> [tx : 0..MaxShift]] : len \in minlen..maxlen }

\* What the contour extraction can return for the planar accumulator
Contours(xy) ==
  { S \in SUBSET { xy[k] : k \in 1..Len(xy) } : Cardinality(S) <= MaxContour }

\* ----------------------------------------------------------- cloud steps
\* pcl::copyPointCloud(*cloud, *acc): the common fields are copied
CopyToAcc(c) ==
  [k \in 1..Len(c) |->
     [x |-> c[k].x, y |-> c[k].y, z |-> c[k].z, rgb |-> c[k].rgb, w |-> DefaultW]]

\* tfn0 = cloud_poses[i].inverse() * cloud_poses[0], as a shift along x
Tfn0(poses, k) == poses[1].tx - poses[k].tx

\* mutant: the accumulator is moved by tfn0 again instead of back
InverseForgotten(t) == t

\* tfn0_eigen.inverse()
Inverse(t) == -t

\* pcl::transformPointCloud(*acc, *acc, t)
TransformPointCloud(a, t) == [k \in 1..Len(a) |-> [a[k] EXCEPT !.x = @ + t]]

\* mutant: the flags of the previous pass are kept
ResetWSkipped(a) == a

\* "Set all the accumulated processed to zero"
ResetW(a) == [k \in 1..Len(a) |-> [a[k] EXCEPT !.w = 0]]

\* "Get the maximum distance": over the incoming points that have a
\* neighbour, the largest distance to the nearest contour point (squared)
RECURSIVE MaxContourDist(_, _, _, _, _)
MaxContourDist(c, index, cont, k, best) ==
  IF k > Len(c) THEN best
  ELSE LET sp == XY(c[k])
           num_neighbors == Len(RadiusSearch(index, sp, CoverageSq, 1))
           found == NearestKSearch(cont, sp)
       IN MaxContourDist(c, index, cont, k + 1,
            IF num_neighbors > 0 /\ Len(found) > 0 /\ found[1] > best
            THEN found[1] ELSE best)

\* ----------------------------------------------------------- point steps
\* mutant: the neighbour index follows the growing accumulator
KdtreeOnLiveAcc == ToXY(acc)

\* the cloud kdtree_neighbors answers from
KdtreeNeighbors == acc_xy

\* "Filter the z part": p.z = (p.z + p_acc.z) / 2 for each neighbour in turn
RECURSIVE ZFilter(_, _, _, _)
ZFilter(z, res, a, h) ==
  IF h > Len(res) THEN z
  ELSE ZFilter(ZAvg(z, a[res[h].idx].z), res, a, h + 1)

\* mutant: the interior test uses half the squared voxel radius
IsBorderHalfRadius(res) == ~ \E h \in 1..Len(res) : res[h].sqd < MaxDistSq \div 2

\* "Determine if it is a point on the border or not"
IsBorder(res) == ~ \E h \in 1..Len(res) : res[h].sqd < MaxDistSq

\* the border branch: acc->push_back(p_new)
AppendBorder(a, pt, z, rgb) ==
  Append(a, [x |-> pt.x, y |-> pt.y, z |-> z, rgb |-> rgb, w |-> 1])

\* the interior branch: acc->points[neighbor_idx[min_index]] = p_acc
UpdateInterior(a, k, z, rgb) ==
  [a EXCEPT ![k] = [@ EXCEPT !.z = z, !.rgb = rgb, !.w = 1]]

\* mutant: the new point is pushed as a blended one, as the border point is
AppendNewFlagged(a, pt) ==
  Append(a, [x |-> pt.x, y |-> pt.y, z |-> pt.z, rgb |-> pt.rgb, w |-> 1])

\* the no-neighbour branch: acc->push_back(p)
AppendNew(a, pt) ==
  Append(a, [x |-> pt.x, y |-> pt.y, z |-> pt.z, rgb |-> pt.rgb, w |-> DefaultW])

\* mutant: the fix-up skips nothing
NeverBlended(p_acc) == FALSE

\* mutant: the test of the flag is inverted
AlreadyBlendedInverted(p_acc) == p_acc.w # 1

\* "Check if the color of this point has already been processed"
AlreadyBlended(p_acc) == p_acc.w = 1

\* "Fix the color of all internal accumulated points that has not been
\* blended": the accumulator the loop over acc_overlap_idx leaves, with the
\* set of indices it wrote
RECURSIVE FixUp(_, _, _, _, _, _, _)
FixUp(a, wrote, overlap, h, c, cont, Msq) ==
  IF h > Len(overlap) THEN [acc |-> a, wrote |-> wrote]
  ELSE LET k == overlap[h]
           p_acc == a[k]
           sp == XY(p_acc)
           found == NearestKSearch(cont, sp)
       IN IF AlreadyBlended(p_acc) \/ Len(c) = 0 \/ Len(found) = 0
          THEN FixUp(a, wrote, overlap, h + 1, c, cont, Msq)
          ELSE LET col == Blend(p_acc.rgb, c[NearestCloudIdx(c, sp)].rgb,
                                found[1], Msq)
               IN FixUp([a EXCEPT ![k] = [@ EXCEPT !.rgb = col, !.w = 1]],
                        wrote \cup {k}, overlap, h + 1, c, cont, Msq)

Range(f) == { f[k] : k \in DOMAIN f }

\* ------------------------------------------------------------------ state
run_vars == <<build, graph_file, poses_ret, cloud_poses, cleanup_ran, saved>>
pass_vars == <<acc_xy, contour, max_contour_dist, pre>>
point_vars == <<matched, written, rewritten, fresh, branches, branch, matches, primary, unflagged, fixed>>

Init ==
  /\ build \in {"wrap", "saturate"}
  /\ graph_file \in {"missing", "malformed", "ok"}
  /\ pc = "readPoses"
  /\ poses_ret = "unset"
  /\ cloud_poses = <<>>
  /\ i = 1
  /\ acc = <<>>
  /\ cloud = <<>>
  /\ n = 1
  /\ acc_xy = <<>>
  /\ contour = {}
  /\ max_contour_dist = 0
  /\ cleanup_ran = FALSE
  /\ saved = FALSE
  /\ seeds = {}
  /\ merged = {}
  /\ acc_frame = 0
  /\ pre = <<>>
  /\ matched = {}
  /\ written = {}
  /\ rewritten = {}
  /\ fresh = {}
  /\ branches = {}
  /\ branch = "none"
  /\ matches = <<>>
  /\ primary = 0
  /\ unflagged = {}
  /\ fixed = {}

\* readPoses, and the test of its result in build3D.  A missing file gives a
\* stream no line is read from.  In a malformed file either a field is no
\* number, and lexical_cast throws out of build3D, or a row is short (here:
\* the only row), and its pose is built from uninitialized values.  Every
\* return is "true".
ReadPoses ==
  /\ pc = "readPoses"
  /\ \/ /\ graph_file = "missing"
        /\ cloud_poses' = <<>>
        /\ poses_ret' = "true"
        /\ pc' = "loop"
     \/ /\ graph_file = "malformed"
        /\ cloud_poses' = <<>>
        /\ poses_ret' = "unset"
        /\ pc' = "terminated"
     \/ /\ graph_file = "malformed"
        /\ cloud_poses' \in PoseLists(1, 1)
        /\ poses_ret' = "true"
        /\ pc' = "loop"
     \/ /\ graph_file = "ok"
        /\ cloud_poses' \in PoseLists(0, NClouds)
        /\ poses_ret' = "true"
        /\ pc' = "loop"
  /\ UNCHANGED <<build, graph_file, i, acc, cloud, n, cleanup_ran, saved, seeds,
                 merged, acc_frame>>
  /\ UNCHANGED pass_vars
  /\ UNCHANGED point_vars

\* loadPCDFile fails: warn and continue with the next row
SkipCloud ==
  /\ pc = "loop"
  /\ i <= Len(cloud_poses)
  /\ i' = i + 1
  /\ UNCHANGED <<pc, acc, cloud, n, seeds, merged, acc_frame>>
  /\ UNCHANGED run_vars
  /\ UNCHANGED pass_vars
  /\ UNCHANGED point_vars

\* "First iteration": the accumulator is empty, the cloud becomes it
SeedCloud ==
  /\ pc = "loop"
  /\ i <= Len(cloud_poses)
  /\ Len(acc) = 0
  /\ \E c \in Clouds(i, MaxAcc - Len(acc)) :
       /\ cloud' = c
       /\ acc' = CopyToAcc(c)
  /\ seeds' = seeds \cup {i}
  /\ acc_frame' = cloud_poses[i].tx
  /\ i' = i + 1
  /\ UNCHANGED <<pc, n, merged>>
  /\ UNCHANGED run_vars
  /\ UNCHANGED pass_vars
  /\ UNCHANGED point_vars

\* A later cloud: move the accumulator to the frame of the cloud, build the
\* three indices, reset the flags and measure max_contour_dist
BeginMerge ==
  /\ pc = "loop"
  /\ i <= Len(cloud_poses)
  /\ Len(acc) # 0
  /\ \E c \in Clouds(i, MaxAcc - Len(acc)) :
       LET moved == TransformPointCloud(acc, Tfn0(cloud_poses, i))
           xy == ToXY(moved)
       IN \E cont \in Contours(xy) :
            /\ cloud' = c
            /\ acc' = ResetW(moved)
            /\ acc_xy' = xy
            /\ contour' = cont
            /\ max_contour_dist' = MaxContourDist(c, xy, cont, 1, 0)
  /\ pre' = acc
  /\ acc_frame' = acc_frame - Tfn0(cloud_poses, i)
  /\ merged' = merged \cup {i}
  /\ n' = 1
  /\ pc' = "merge"
  /\ matched' = {}
  /\ written' = {}
  /\ rewritten' = {}
  /\ fresh' = {}
  /\ branches' = {}
  /\ branch' = "none"
  /\ matches' = <<>>
  /\ primary' = 0
  /\ unflagged' = {}
  /\ fixed' = {}
  /\ UNCHANGED <<i, seeds>>
  /\ UNCHANGED run_vars

\* One turn of "Merge the current cloud with the accumulated"
MergePoint ==
  /\ pc = "merge"
  /\ n <= Len(cloud)
  /\ LET pt == cloud[n]
         sp == XY(pt)
         res == RadiusSearch(KdtreeNeighbors, sp, CoverageSq, K)
         acc_overlap_idx == [h \in 1..Len(res) |-> res[h].idx]
     IN IF Len(res) > 0
        THEN LET z == ZFilter(pt.z, res, acc, 1)
                 prim == res[MinElement(res)].idx
                 found == NearestKSearch(contour, sp)
                 col == IF Len(found) > 0
                        THEN Blend(acc[prim].rgb, pt.rgb, found[1], max_contour_dist)
                        ELSE pt.rgb
                 is_border == IsBorder(res)
                 acc1 == IF is_border THEN AppendBorder(acc, pt, z, col)
                         ELSE UpdateInterior(acc, prim, z, col)
                 out == FixUp(acc1, {}, acc_overlap_idx, 1, cloud, contour,
                              max_contour_dist)
             IN        /\ acc' = out.acc
                       /\ fixed' = out.wrote
                       /\ unflagged' = { k \in Range(acc_overlap_idx) : acc1[k].w = 0 }
                       /\ branch' = IF is_border THEN "border" ELSE "interior"
                       /\ matched' = matched \cup Range(acc_overlap_idx)
                       /\ written' = written \cup {IF is_border THEN Len(acc1) ELSE prim}
                       /\ rewritten' = IF ~is_border /\ acc[prim].w = 1
                                       THEN rewritten \cup {prim} ELSE rewritten
                       /\ fresh' = fresh
                       /\ primary' = prim
                       /\ matches' = acc_overlap_idx
        ELSE /\ acc' = AppendNew(acc, pt)
             /\ fixed' = {}
             /\ unflagged' = {}
             /\ branch' = "new"
             /\ UNCHANGED <<matched, written, rewritten>>
             /\ fresh' = fresh \cup {Len(acc) + 1}
             /\ primary' = 0
             /\ matches' = <<>>
  /\ branches' = branches \cup {branch'}
  /\ n' = n + 1
  /\ UNCHANGED <<pc, i, cloud, seeds, merged, acc_frame>>
  /\ UNCHANGED run_vars
  /\ UNCHANGED pass_vars

\* "Return the acc to its original pose" and go to the next row
EndMerge ==
  /\ pc = "merge"
  /\ n > Len(cloud)
  /\ acc' = TransformPointCloud(acc, Inverse(Tfn0(cloud_poses, i)))
  /\ acc_frame' = acc_frame - Inverse(Tfn0(cloud_poses, i))
  /\ i' = i + 1
  /\ pc' = "loop"
  /\ UNCHANGED <<cloud, n, seeds, merged>>
  /\ UNCHANGED run_vars
  /\ UNCHANGED pass_vars
  /\ UNCHANGED point_vars

\* After the last row: drop w, filter the accumulator and save it
Finish ==
  /\ pc = "loop"
  /\ i > Len(cloud_poses)
  /\ cleanup_ran' = TRUE
  /\ saved' = TRUE
  /\ pc' = "done"
  /\ UNCHANGED <<build, graph_file, poses_ret, cloud_poses, i, acc, cloud, n,
                 seeds, merged, acc_frame>>
  /\ UNCHANGED pass_vars
  /\ UNCHANGED point_vars

Next ==
  \/ ReadPoses
  \/ SkipCloud
  \/ SeedCloud
  \/ BeginMerge
  \/ MergePoint
  \/ EndMerge
  \/ Finish

Spec == Init /\ [][Next]_vars


\* ------------------------------------------------------------- properties
\* a step of the merge loop: one incoming point is processed
PointStep == pc = "merge" /\ n <= Len(cloud) /\ n' = n + 1

\* the merge loop of the pass is over (before or after the return transform)
PassDone == (pc = "merge" /\ n > Len(cloud)) \/ (pc \in {"loop", "done"} /\ merged # {})

\* the accumulator is back in its frame after a merge pass
PassEnded == pc \in {"loop", "done"} /\ merged # {}

\* the flag and the fields the fix-up and the branches write
SamePoint(a, b) == a.x = b.x /\ a.y = b.y /\ a.z = b.z /\ a.rgb = b.rgb

\* C1: an incoming point with no accumulator point inside the query radius
\* grows the accumulator by exactly one point, leaves every existing point as
\* it was, and the appended point is the incoming point with flag 0.
C1_NewPointInsertion ==
  [][ (PointStep /\ \A k \in 1..Len(acc_xy) :
                      DistSq(XY(cloud[n]), acc_xy[k]) >= CoverageSq)
      => /\ Len(acc') = Len(acc) + 1
         /\ \A k \in 1..Len(acc) : acc'[k] = acc[k]
         /\ SamePoint(acc'[Len(acc')], cloud[n])
         /\ acc'[Len(acc')].w = 0 ]_vars

C1_Witness ==
  /\ pc = "merge"
  /\ branch = "new"
  /\ Len(pre) > 0
  /\ Len(acc) > Len(pre)
  /\ acc[Len(acc)].w = 0

\* C2: an incoming point with matches, all of them strictly inside max_dist,
\* never appends: the size is kept and the closest match is overwritten with
\* the averaged z, the color of the blend step and flag 1, x and y kept.
C2_InteriorOverwrite ==
  [][ (PointStep /\ matches' # <<>>
       /\ \A h \in 1..Len(matches') :
            DistSq(XY(cloud[n]), acc_xy[matches'[h]]) < MaxDistSq)
      => LET sp == XY(cloud[n])
             res == [h \in 1..Len(matches') |->
                       [idx |-> matches'[h], sqd |-> DistSq(sp, acc_xy[matches'[h]])]]
             found == NearestKSearch(contour, sp)
         IN /\ Len(acc') = Len(acc)
            /\ primary' \in Range(matches')
            /\ \A h \in 1..Len(matches') :
                 DistSq(sp, acc_xy[primary']) <= DistSq(sp, acc_xy[matches'[h]])
            /\ acc'[primary'].x = acc[primary'].x
            /\ acc'[primary'].y = acc[primary'].y
            /\ acc'[primary'].z = ZFilter(cloud[n].z, res, acc, 1)
            /\ acc'[primary'].w = 1
            /\ acc'[primary'].rgb =
                 IF Len(found) > 0
                 THEN Blend(acc[primary'].rgb, cloud[n].rgb, found[1], max_contour_dist)
                 ELSE cloud[n].rgb ]_vars

C2_Witness ==
  /\ pc = "merge"
  /\ branch = "interior"
  /\ Len(matches) >= 2
  /\ contour # {}
  /\ \A h \in 1..Len(matches) :
       DistSq(XY(cloud[n - 1]), acc_xy[matches[h]]) < MaxDistSq
  /\ acc[primary].w = 1

\* every incoming point is farther than the coverage radius from every point
\* the accumulator held at the start of the pass
Disjoint ==
  \A k \in 1..Len(cloud) : \A j \in 1..Len(acc_xy) :
    DistSq(XY(cloud[k]), acc_xy[j]) > CoverageSq

\* C3: after a merge pass of a cloud disjoint from the accumulator, the
\* accumulator holds its former points, unchanged in position, z and color,
\* followed by one point per incoming point; only the no-neighbour branch ran.
C3_DisjointCoverage ==
  (PassEnded /\ Disjoint)
  => /\ Len(acc) = Len(pre) + Len(cloud)
     /\ \A k \in 1..Len(pre) : SamePoint(acc[k], pre[k])
     /\ branches \subseteq {"new"}
     /\ matched = {}
     /\ written = {}

C3_Witness ==
  /\ PassEnded
  /\ Disjoint
  /\ Len(cloud) = 2
  /\ Len(pre) > 0
  /\ Tfn0(cloud_poses, i - 1) # 0
  /\ Len(acc) = Len(pre) + 2

\* C4 as claimed: at the end of a pass every point matched, overwritten or
\* border-appended in it has flag 1, the appended no-neighbour points have
\* flag 0, and every other point has flag 0.
C4_TouchedFlagged ==
  PassDone
  => /\ \A k \in matched \cup written : acc[k].w = 1
     /\ \A k \in fresh : acc[k].w = 0
     /\ \A k \in 1..Len(acc) :
          k \notin (matched \cup written \cup fresh) => (k <= Len(pre) /\ acc[k].w = 0)

\* C4 amended: the matched points are flagged when the contour is not empty;
\* with an empty contour only the overwritten and border-appended ones are.
C4_TouchedFlaggedIfContour ==
  PassDone
  => /\ \A k \in written : acc[k].w = 1
     /\ contour # {} => \A k \in matched : acc[k].w = 1
     /\ \A k \in fresh : acc[k].w = 0
     /\ \A k \in 1..Len(acc) :
          k \notin (matched \cup written \cup fresh) => (k <= Len(pre) /\ acc[k].w = 0)

C4_Witness ==
  /\ PassDone
  /\ contour # {}
  /\ matched \ written # {}
  /\ written # {}
  /\ (1..Len(pre)) \ matched # {}
  /\ Cardinality(merged) >= 2

\* C5: with a missing or malformed pose file readPoses does not report
\* success, and nothing is seeded, merged, filtered or saved.
C5_BadPoseFileAborts ==
  graph_file # "ok"
  => /\ poses_ret # "true"
     /\ seeds = {}
     /\ merged = {}
     /\ ~cleanup_ran
     /\ ~saved

\* C6: only the first row takes the seed step, and in every merge pass the
\* accumulator is expressed in the frame of the cloud being merged.
C6_SeedIsFirstCloud ==
  /\ seeds \subseteq {1}
  /\ pc = "merge" => acc_frame = cloud_poses[i].tx

\* C7: every index a radius query returns is one of a point the accumulator
\* held at the start of the pass, and a step keeps the position and the index
\* of every point it found in the accumulator.
C7_SnapshotIndices ==
  [][ PointStep
      => /\ \A h \in 1..Len(matches') : matches'[h] \in 1..Len(pre)
         /\ Len(acc') >= Len(acc)
         /\ \A k \in 1..Len(acc) : XY(acc'[k]) = XY(acc[k]) ]_vars

\* an incoming point was processed with a point appended earlier in the pass
\* inside its query radius
C7_Witness ==
  /\ pc = "merge"
  /\ n > 2
  /\ LET before == Len(acc) - (IF branch \in {"new", "border"} THEN 1 ELSE 0)
     IN \E k \in (Len(pre) + 1)..before :
          DistSq(XY(cloud[n - 1]), XY(acc[k])) < CoverageSq

\* C8 as claimed: the fix-up flags exactly the matches that are not the
\* primary match and have flag 0, and leaves the primary match and the
\* flagged points as the branch left them.
C8_FixUpSparesPrimary ==
  [][ (PointStep /\ matches' # <<>>)
      => \A k \in Range(matches') :
           IF k # primary' /\ acc[k].w = 0
           THEN acc'[k].w = 1 /\ k \in fixed'
           ELSE k \notin fixed' /\ (k # primary' => acc'[k] = acc[k]) ]_vars

\* C8 amended: the fix-up writes exactly the matches whose flag is 0 when it
\* runs, and only if the contour is not empty.  The primary match of an
\* interior point has just been flagged and is spared; the primary match of a
\* border point is re-blended like any other match.  It writes color and flag.
C8_FixUpWritesUnflagged ==
  [][ (PointStep /\ matches' # <<>>)
      => /\ \A k \in Range(matches') :
              IF acc[k].w = 0 /\ contour # {} /\ ~(branch' = "interior" /\ k = primary')
              THEN /\ k \in fixed'
                   /\ acc'[k] = [acc[k] EXCEPT !.w = 1, !.rgb = acc'[k].rgb]
              ELSE /\ k \notin fixed'
                   /\ (branch' = "interior" /\ k = primary') \/ acc'[k] = acc[k]
         /\ fixed' \subseteq Range(matches')
         /\ \A k \in 1..Len(acc) : k \notin Range(matches') => acc'[k] = acc[k] ]_vars

C8_Witness ==
  /\ pc = "merge"
  /\ branch = "border"
  /\ primary \in fixed
  /\ Cardinality(fixed) >= 2

\* C9 as claimed: a point whose flag is 1 is not written again in the pass.
C9_FlagIsFinal ==
  [][ PointStep => \A k \in 1..Len(acc) : acc[k].w = 1 => acc'[k] = acc[k] ]_vars

\* C9 amended: a flag that is 1 stays 1 until the next reset and the fix-up
\* never writes a flagged point, but the interior branch overwrites z and
\* color of its primary match whether it is flagged or not.
C9_FlagStaysSet ==
  [][ PointStep
      => \A k \in 1..Len(acc) :
           acc[k].w = 1
           => /\ acc'[k].w = 1
              /\ k \notin fixed'
              /\ acc'[k] = acc[k] \/ (branch' = "interior" /\ primary' = k) ]_vars

C9_Witness ==
  /\ pc = "merge"
  /\ rewritten # {}
  /\ \E k \in rewritten : acc[k].w = 1 /\ acc[k].z # pre[k].z

\* C10: whenever the blend weight is about to be evaluated (the incoming
\* point has a neighbour and the contour index answers), max_contour_dist is
\* greater than zero.
C10_NoDivisionByZero ==
  (/\ pc = "merge"
   /\ n <= Len(cloud)
   /\ contour # {}
   /\ \E k \in 1..Len(acc_xy) : DistSq(XY(cloud[n]), acc_xy[k]) < CoverageSq)
  => max_contour_dist > 0


=============================================================================
